---- MODULE Spec2Model ----
(***************************************************************************)
(* Model of the wallet funding tool: the Funding Distributor               *)
(* (WalletFunder, src/unnamed/part_001) and the Funding Verifier           *)
(* (TransactionChecker, src/transaction-checker.js), with the policy of    *)
(* Config (src/unnamed/part_000).                                          *)
(*                                                                         *)
(* Amounts are in lamports (1 SOL = LAMPORTS_PER_SOL lamports), times in    *)
(* hours.  An address is a small integer; donor number k of the roster has *)
(* address k, address 0 belongs to no donor.  A valid private key is the   *)
(* key of the donor's own address.                                         *)
(***************************************************************************)
EXTENDS Integers, Sequences, FiniteSets, TLC

\* ---------------------------------------------------------------- bounds
MaxDonors == 2
MaxOps == 3
MaxUnfunded == 4
MaxRecipients == 2
MaxHistory == 2

\* ------------------------------------------------------ policy (Config)
LAMPORTS_PER_SOL == 1000000000
\* fundingAmountSol (default 0.05 SOL) and the fee reserve 0.001 SOL
FundingAmountLamports == (LAMPORTS_PER_SOL \div 100) * 5
FeeReserveLamports == LAMPORTS_PER_SOL \div 1000
\* 0.05 + 0.001 evaluates to 0.051000000000000004 in double arithmetic, which
\* lies above 51000000 / LAMPORTS_PER_SOL and at most one lamport above it.
FloatSumExcess == 1
\* minSolAmount (default 0.1 SOL) and hoursLookback (default 24)
MinLamports == LAMPORTS_PER_SOL \div 10
HoursLookback == 24
\* new Date() of getTimeframeCutoff, in milliseconds
NowMs == 360000500

VARIABLES
  donors,                \* roster of donors: [address, privateKey]
  dryRun,                \* config.dryRun
  maxFundingOperations,  \* config.maxFundingOperations
  unfundedRecipients,    \* argument of fundWallets
  fpc,                   \* position of fundWallets
  recipientsToFund,      \* unfundedRecipients.slice(0, maxFundingOperations)
  availableDonors,       \* result of getAvailableDonors, being built
  donorPos,              \* number of donors getAvailableDonors has handled
  i,                     \* loop variable of the funding loop (0-indexed)
  donorIndex,            \* round-robin counter
  results,               \* { success, failed, skipped }
  returned,              \* the value fundWallets returned, NoResult before
  balanceCalls,          \* calls of connection.getBalance, in order, with their answers
  attempts,              \* per loop iteration: recipient, donor, outcome
  transfers,             \* calls of sendSol: the transfers asked of the ledger
  recipients,            \* roster of recipients: [address]
  vpc,                   \* position of findUnfundedRecipients
  checkedCount,          \* recipients the loop of findUnfundedRecipients has taken
  signatures,            \* answer of getSignaturesForAddress for the recipient
  recentSignatures,      \* the signatures within the timeframe
  sigPos,                \* entries of recentSignatures the scan has handled
  lastTx,                \* the ledger's transaction of the last detail lookup
  lastOutcome,           \* how that lookup ended: "returned", "null", "threw"
  lookups,               \* calls of getTransaction for the recipient: signature, outcome
  reported,              \* what the last step wrote to the console about an error
  classified             \* per recipient handled: address, funded, queryFailed

fundVars == <<fpc, recipientsToFund, availableDonors,
              donorPos, i, donorIndex, results, returned, balanceCalls,
              attempts, transfers>>
verifyVars == <<recipients, vpc, checkedCount, signatures, recentSignatures,
                sigPos, lastTx, lastOutcome, lookups, reported, classified>>
configVars == <<donors, dryRun, maxFundingOperations>>
vars == <<configVars, unfundedRecipients, fundVars, verifyVars>>

NoResult == [success |-> -1, failed |-> -1, skipped |-> -1]

Addresses == 0..MaxDonors
RecipientAddresses == 0..1
\* A wallet's privateKey: absent (null), or a string.  Whether the string is a
\* well-formed key shows when parsePrivateKey is called on it.
PrivateKeys == {"none", "string"}

\* Balances (in lamports) the ledger may report for a donor, around the
\* required balance.
Balances == {FundingAmountLamports + FeeReserveLamports - 1,
             FundingAmountLamports + FeeReserveLamports,
             FundingAmountLamports + FeeReserveLamports + FloatSumExcess}

Min(a, b) == IF a < b THEN a ELSE b

\* A slice that forgets the cap.
SliceAll(s, n) == s

\* Array.prototype.slice(0, n) for n >= 0
Slice0(s, n) == SubSeq(s, 1, Min(Len(s), n))

SeqsUpTo(S, n) == UNION {[1..k -> S] : k \in 0..n}

\* Rosters the loader can hand over: at least one donor (index.js:67).
DonorRosters ==
  UNION {{[k \in 1..n |-> [address |-> k, privateKey |-> keys[k]]] :
            keys \in [1..n -> PrivateKeys]} : n \in 1..MaxDonors}

RecipientLists ==
  {[k \in 1..Len(s) |-> [address |-> s[k]]] : s \in SeqsUpTo(RecipientAddresses, MaxUnfunded)}

\* ------------------------------------------------------- WalletFunder
\* A required balance that forgets the fee reserve.
requiredBalanceNoFee == FundingAmountLamports

\* getAvailableDonors, lines 100 and 111: the least balance in lamports whose
\* value in SOL (getWalletBalance: balance / LAMPORTS_PER_SOL) passes
\* balance >= fundingAmountSol + 0.001
requiredBalance == FundingAmountLamports + FeeReserveLamports + FloatSumExcess

\* parsePrivateKey: the keypair of a well-formed key string (the key of the
\* donor's address); it throws on any other string
parsePrivateKey(donor, wellFormed) ==
  [threw |-> ~wellFormed, publicKey |-> donor.address]

\* A transaction as getTransaction returns it: meta.err, meta.preBalances,
\* meta.postBalances and transaction.message.accountKeys.
NoTx == [meta |-> [err |-> TRUE, preBalances |-> <<>>, postBalances |-> <<>>],
         accountKeys |-> <<>>]

\* No console line about an error.
NoReport == [address |-> -1, message |-> "none"]

\* The verifier before findUnfundedRecipients is called.
VerifierFresh(pc) ==
  /\ vpc = pc
  /\ checkedCount = 0
  /\ signatures = <<>>
  /\ recentSignatures = <<>>
  /\ sigPos = 0
  /\ lastTx = NoTx
  /\ lastOutcome = "none"
  /\ lookups = <<>>
  /\ reported = NoReport
  /\ classified = <<>>

\* The funder before fundWallets is called.
FunderFresh(pc) ==
  /\ fpc = pc
  /\ recipientsToFund = <<>>
  /\ availableDonors = <<>>
  /\ donorPos = 0
  /\ i = 0
  /\ donorIndex = 0
  /\ results = [success |-> 0, failed |-> 0, skipped |-> 0]
  /\ returned = NoResult
  /\ balanceCalls = <<>>
  /\ attempts = <<>>
  /\ transfers = <<>>

\* fundWallets is called on a list of unfunded recipients and the donor roster.
InitFund ==
  /\ donors \in DonorRosters
  /\ dryRun \in BOOLEAN
  /\ maxFundingOperations \in 1..MaxOps
  /\ unfundedRecipients \in RecipientLists
  /\ recipients = unfundedRecipients
  /\ VerifierFresh("idle")
  /\ FunderFresh("start")

\* An empty-list test that never fires.
neverNothingToFund(list) == FALSE

\* fundWallets, line 21: nothing to fund
nothingToFund(list) == Len(list) = 0

\* fundWallets, lines 20-38: the empty-list return and the truncation
FundBegin ==
  /\ fpc = "start"
  /\ IF nothingToFund(unfundedRecipients)
       THEN /\ returned' = [success |-> 0, failed |-> 0, skipped |-> 0]
            /\ fpc' = "done"
            /\ UNCHANGED recipientsToFund
       ELSE /\ recipientsToFund' = Slice0(unfundedRecipients, maxFundingOperations)
            /\ fpc' = "donors"
            /\ UNCHANGED returned
  /\ UNCHANGED <<configVars, verifyVars, unfundedRecipients, availableDonors, donorPos, i,
                 donorIndex, results, balanceCalls, attempts, transfers>>

\* getAvailableDonors: one iteration of the loop over donors, for a donor
\* without a private key (no ledger call)
DonorNoKey ==
  /\ fpc = "donors"
  /\ donorPos < Len(donors)
  /\ donors[donorPos + 1].privateKey = "none"
  /\ donorPos' = donorPos + 1
  /\ UNCHANGED <<configVars, verifyVars, unfundedRecipients, fpc, recipientsToFund,
                 availableDonors, i, donorIndex, results, returned,
                 balanceCalls, attempts, transfers>>

\* A getAvailableDonors that stops at the first balance lookup that throws and
\* returns the donors it has so far.
DonorBalanceErrorStops ==
  /\ fpc = "donors"
  /\ donorPos < Len(donors)
  /\ donors[donorPos + 1].privateKey # "none"
  /\ balanceCalls' = Append(balanceCalls,
       [address |-> donors[donorPos + 1].address, ok |-> FALSE, balance |-> 0,
        parse |-> "not_called"])
  /\ donorPos' = Len(donors)
  /\ UNCHANGED <<configVars, verifyVars, unfundedRecipients, fpc, recipientsToFund,
                 availableDonors, i, donorIndex, results, returned,
                 attempts, transfers>>

\* getAvailableDonors: one iteration for a donor with a private key whose
\* balance lookup throws
DonorBalanceError ==
  /\ fpc = "donors"
  /\ donorPos < Len(donors)
  /\ donors[donorPos + 1].privateKey # "none"
  /\ balanceCalls' = Append(balanceCalls,
       [address |-> donors[donorPos + 1].address, ok |-> FALSE, balance |-> 0,
        parse |-> "not_called"])
  /\ donorPos' = donorPos + 1
  /\ UNCHANGED <<configVars, verifyVars, unfundedRecipients, fpc, recipientsToFund,
                 availableDonors, i, donorIndex, results, returned,
                 attempts, transfers>>

\* getAvailableDonors: one iteration for a donor with a private key whose
\* balance lookup answers; wellFormed tells whether its key string parses
\* (parsePrivateKey is only called on a sufficient balance)
DonorBalance(balance, wellFormed) ==
  /\ fpc = "donors"
  /\ donorPos < Len(donors)
  /\ donors[donorPos + 1].privateKey # "none"
  /\ balance < requiredBalance => wellFormed
  /\ donorPos' = donorPos + 1
  /\ LET donor == donors[donorPos + 1]
         keypair == parsePrivateKey(donor, wellFormed)
     IN /\ balanceCalls' = Append(balanceCalls,
             [address |-> donor.address, ok |-> TRUE, balance |-> balance,
              parse |-> IF balance < requiredBalance THEN "not_called"
                        ELSE IF keypair.threw THEN "threw" ELSE "ok"])
        /\ IF balance >= requiredBalance /\ ~keypair.threw
             THEN availableDonors' =
                    Append(availableDonors,
                           [address |-> donor.address, privateKey |-> donor.privateKey,
                            balance |-> balance, keypair |-> keypair,
                            roster |-> donorPos + 1])
             ELSE UNCHANGED availableDonors
  /\ UNCHANGED <<configVars, verifyVars, unfundedRecipients, fpc, recipientsToFund,
                 i, donorIndex, results, returned, attempts, transfers>>

\* A no-donor return that counts nobody as skipped.
noDonorResultZero(toFund) == [success |-> 0, failed |-> 0, skipped |-> 0]

\* fundWallets, line 45: the value returned when no donor is available
noDonorResult(toFund) == [success |-> 0, failed |-> 0, skipped |-> Len(toFund)]

\* fundWallets, lines 41-53: getAvailableDonors has returned
DonorsChecked ==
  /\ fpc = "donors"
  /\ donorPos = Len(donors)
  /\ IF Len(availableDonors) = 0
       THEN /\ returned' = noDonorResult(recipientsToFund)
            /\ fpc' = "done"
       ELSE /\ fpc' = "loop"
            /\ UNCHANGED returned
  /\ results' = [success |-> 0, failed |-> 0, skipped |-> 0]
  /\ donorIndex' = 0
  /\ i' = 0
  /\ UNCHANGED <<configVars, verifyVars, unfundedRecipients, recipientsToFund,
                 availableDonors, donorPos, balanceCalls, attempts, transfers>>

\* sendSol: the transfer it is called for and whether it throws.  "error"
\* stands for any exception of the call: getLatestBlockhash, the submission or
\* its confirmation.
SendOutcomes == {"ok", "error"}

\* A sendSol that submits the transfer a second time when the first fails.
sendSolWithRetry(donor, recipientAddress, outcome) ==
  LET transfer == [from |-> donor.keypair.publicKey, to |-> recipientAddress]
  IN [threw |-> outcome # "ok",
      submitted |-> IF outcome = "ok" THEN <<transfer>> ELSE <<transfer, transfer>>]

sendSol(donor, recipientAddress, outcome) ==
  [threw |-> outcome # "ok",
   submitted |-> <<[from |-> donor.keypair.publicKey, to |-> recipientAddress]>>]

\* A try block that ignores the dry-run switch.
tryFundAlwaysSend(isDryRun, donor, recipientAddress, outcome) ==
  sendSol(donor, recipientAddress, outcome)

\* fundWallets, lines 61-74: the try block of one iteration
tryFund(isDryRun, donor, recipientAddress, outcome) ==
  IF isDryRun
    THEN [threw |-> FALSE, submitted |-> <<>>]
    ELSE sendSol(donor, recipientAddress, outcome)

\* A round-robin counter that only advances after a success.
nextDonorIndexOnSuccess(index, threw) == IF threw THEN index ELSE index + 1

\* fundWallets, line 76: the round-robin counter after an iteration
nextDonorIndex(index, threw) == index + 1

\* A tally that forgets the iterations that failed.
tallySuccessOnly(tally, threw) ==
  IF threw THEN tally ELSE [tally EXCEPT !.success = @ + 1]

\* fundWallets, lines 64, 68 and 73: the tally after an iteration
tallyIteration(tally, threw) ==
  IF threw THEN [tally EXCEPT !.failed = @ + 1]
           ELSE [tally EXCEPT !.success = @ + 1]

\* A loop that asks the ledger for the donor's balance before each transfer.
balanceRecheck(donor) ==
  <<[address |-> donor.address, ok |-> TRUE, balance |-> donor.balance,
     parse |-> "not_called"]>>

\* fundWallets, lines 56-58: the balance queries of one iteration.  The loop
\* takes the donor record getAvailableDonors built and asks for no balance.
loopBalanceCalls(donor) == <<>>

\* fundWallets, lines 55-83: one iteration of the funding loop
FundOne(outcome) ==
  /\ fpc = "loop"
  /\ i < Len(recipientsToFund)
  /\ dryRun => outcome = "ok"
  /\ LET recipient == recipientsToFund[i + 1]
         slot == (donorIndex % Len(availableDonors)) + 1
         donor == availableDonors[slot]
         try == tryFund(dryRun, donor, recipient.address, outcome)
     IN /\ transfers' = transfers \o try.submitted
        /\ balanceCalls' = balanceCalls \o loopBalanceCalls(donor)
        /\ results' = tallyIteration(results, try.threw)
        /\ attempts' = Append(attempts,
             [recipient |-> recipient.address, donor |-> donor.address,
              balance |-> donor.balance, simulated |-> dryRun,
              outcome |-> IF try.threw THEN "failed" ELSE "success"])
        /\ donorIndex' = nextDonorIndex(donorIndex, try.threw)
  /\ i' = i + 1
  /\ UNCHANGED <<configVars, verifyVars, unfundedRecipients, fpc, recipientsToFund,
                 availableDonors, donorPos, returned>>

\* fundWallets, lines 85-91: the loop is over, the tally is returned
FundReturn ==
  /\ fpc = "loop"
  /\ i >= Len(recipientsToFund)
  /\ returned' = results
  /\ fpc' = "done"
  /\ UNCHANGED <<configVars, verifyVars, unfundedRecipients, recipientsToFund,
                 availableDonors, donorPos, i, donorIndex, results,
                 balanceCalls, attempts, transfers>>

NextFund ==
  \/ FundBegin
  \/ DonorNoKey
  \/ DonorBalanceError
  \/ \E balance \in Balances, wellFormed \in BOOLEAN : DonorBalance(balance, wellFormed)
  \/ DonorsChecked
  \/ \E outcome \in SendOutcomes : FundOne(outcome)
  \/ FundReturn

SpecFund == InitFund /\ [][NextFund]_vars

\* ------------------------------------------------- TransactionChecker
\* getSignaturesForAddress is asked for at most this many signatures
HistoryLimit == 100

\* Config.getTimeframeCutoff, in milliseconds
getTimeframeCutoff == NowMs - (HoursLookback * 60 * 60 * 1000)

\* Block times (in seconds) around the cutoff: the last second before it and
\* the first second within the timeframe.
BlockTimes == {getTimeframeCutoff \div 1000, (getTimeframeCutoff \div 1000) + 1}

\* Answers of getSignaturesForAddress: most recent first, at most HistoryLimit
SignatureLists ==
  {sigs \in UNION {[1..n -> [signature : 1..MaxHistory, blockTime : BlockTimes]] :
                     n \in 0..Min(MaxHistory, HistoryLimit)} :
     /\ \A k \in 1..Len(sigs) : sigs[k].signature = k
     /\ \A k \in 1..(Len(sigs) - 1) : sigs[k].blockTime >= sigs[k + 1].blockTime}

\* Accounts that appear as the other party of a recipient's transactions:
\* address 0 is never a donor, 1 always is, 2 is one in the longer rosters.
SenderAddresses == 0..2

\* Transactions the ledger may hold for a signature of the recipient's history:
\* a sender account and the recipient, the sender's balance unchanged or lowered,
\* the recipient's balance unchanged or raised by just under or exactly
\* minSolAmount, the transaction failed or not.
TransactionsOf(recipientAddress) ==
  {[meta |-> [err |-> err,
              preBalances |-> <<MinLamports, MinLamports>>,
              postBalances |-> <<MinLamports - sent, MinLamports + received>>],
    accountKeys |-> <<sender, recipientAddress>>] :
     err \in BOOLEAN,
     sender \in SenderAddresses \ {recipientAddress},
     sent \in {0, MinLamports},
     received \in {0, MinLamports - 1, MinLamports}}

\* Answers of getTransaction: the transaction, nothing (null), or an exception
\* while the ledger does hold the transaction.
LookupOutcomes == {"returned", "threw"}

\* findUnfundedRecipients, line 22
donorAddresses == {donors[k].address : k \in 1..Len(donors)}

\* A timeframe test that lets every signature through.
anyTimeframe(sig, cutoffTime) == TRUE

\* checkRecipientFunding, lines 80-83: new Date(sig.blockTime * 1000) >= cutoffTime
withinTimeframe(sig, cutoffTime) == sig.blockTime * 1000 >= cutoffTime

\* A filter that hands the signatures back oldest first.
RECURSIVE FilterOldestFirst(_, _)
FilterOldestFirst(seq, cutoffTime) ==
  IF Len(seq) = 0 THEN <<>>
  ELSE IF withinTimeframe(Head(seq), cutoffTime)
    THEN FilterOldestFirst(Tail(seq), cutoffTime) \o <<Head(seq)>>
    ELSE FilterOldestFirst(Tail(seq), cutoffTime)

\* Array.prototype.filter
RECURSIVE Filter(_, _)
Filter(seq, cutoffTime) ==
  IF Len(seq) = 0 THEN <<>>
  ELSE IF withinTimeframe(Head(seq), cutoffTime)
    THEN <<Head(seq)>> \o Filter(Tail(seq), cutoffTime)
    ELSE Filter(Tail(seq), cutoffTime)

\* analyzeTransactionForFunding, lines 139-145: first index of the recipient
\* among the account keys, 0 when absent
recipientIndexOf(accountKeys, recipientAddress) ==
  IF \E k \in 1..Len(accountKeys) : accountKeys[k] = recipientAddress
    THEN CHOOSE k \in 1..Len(accountKeys) :
           /\ accountKeys[k] = recipientAddress
           /\ \A j \in 1..(k - 1) : accountKeys[j] # recipientAddress
    ELSE 0

\* An amount test that asks for more than the minimum.
amountTooSmallOrEqual(balanceChange) == balanceChange <= MinLamports

\* analyzeTransactionForFunding, lines 158-162:
\* balanceChange / LAMPORTS_PER_SOL < minSolAmount
amountTooSmall(balanceChange) == balanceChange < MinLamports

\* analyzeTransactionForFunding
analyzeTransactionForFunding(transaction, recipientAddress, donorAddrs) ==
  LET preBalances == transaction.meta.preBalances
      postBalances == transaction.meta.postBalances
      accountKeys == transaction.accountKeys
      recipientIndex == recipientIndexOf(accountKeys, recipientAddress)
  IN IF transaction.meta.err THEN FALSE
     ELSE IF Len(preBalances) # Len(postBalances) THEN FALSE
     ELSE IF recipientIndex = 0 THEN FALSE
     ELSE IF postBalances[recipientIndex] - preBalances[recipientIndex] <= 0 THEN FALSE
     ELSE IF amountTooSmall(postBalances[recipientIndex] - preBalances[recipientIndex])
       THEN FALSE
     ELSE \E k \in 1..Len(accountKeys) :
            /\ accountKeys[k] \in donorAddrs
            /\ postBalances[k] - preBalances[k] < 0

\* A catch block that drops the recipient it could not check.
dropOnCheckError(unfunded, recipient) == unfunded

\* A catch block that puts the recipient at the front of the list.
unshiftOnCheckError(unfunded, recipient) == <<recipient>> \o unfunded

\* findUnfundedRecipients, lines 44-48: the catch block
pushOnCheckError(unfunded, recipient) == Append(unfunded, recipient)

\* Rosters the verifier is run on: at least one recipient (index.js:71).
RecipientRosters ==
  {[k \in 1..Len(s) |-> [address |-> s[k]]] :
     s \in SeqsUpTo(RecipientAddresses, MaxRecipients) \ {<<>>}}

\* findUnfundedRecipients is called on the two rosters.
InitVerify ==
  /\ donors \in {r \in DonorRosters : \A k \in 1..Len(r) : r[k].privateKey = "string"}
  /\ dryRun = TRUE
  /\ maxFundingOperations = MaxOps
  /\ recipients \in RecipientRosters
  /\ unfundedRecipients = <<>>
  /\ VerifierFresh("loop")
  /\ FunderFresh("idle")

\* The recipient the loop of findUnfundedRecipients is working on, and the
\* one it takes next.
recipient == recipients[checkedCount]
nextRecipient == recipients[checkedCount + 1]

\* findUnfundedRecipients, lines 37-42 and the return to the loop head
Classify(checked, hasFunding) ==
  /\ unfundedRecipients' = IF hasFunding THEN unfundedRecipients
                           ELSE Append(unfundedRecipients, checked)
  /\ classified' = Append(classified,
       [address |-> checked.address, funded |-> hasFunding, queryFailed |-> FALSE])
  /\ vpc' = "classified"

\* findUnfundedRecipients, line 46: the console line of the catch block.  The
\* message is the one checkRecipientFunding builds at line 117, which names
\* the recipient's address.
reportCheckError(checked) ==
  [address |-> checked.address, message |-> "Failed to check funding"]

\* checkRecipientFunding, lines 108-111: the catch block of a detail lookup
\* writes nothing to the console.
reportLookupError(checked, lookup) == NoReport

\* A scan that gives up at the first detail lookup that brings no transaction.
scanOverOnFailedLookup(pos, recent, lookup) ==
  pos >= Len(recent) \/ lookup # "returned"

\* checkRecipientFunding, lines 90 and 114: the for loop has run out of
\* signatures after pos of them; how the lookup ended does not matter
scanOver(pos, recent, lookup) == pos >= Len(recent)

\* One iteration of findUnfundedRecipients whose history query throws:
\* checkRecipientFunding rethrows (line 117) and the catch block takes over.
GetSignaturesError ==
  /\ vpc = "loop"
  /\ checkedCount < Len(recipients)
  /\ checkedCount' = checkedCount + 1
  /\ unfundedRecipients' = pushOnCheckError(unfundedRecipients, nextRecipient)
  /\ classified' = Append(classified,
       [address |-> nextRecipient.address, funded |-> FALSE, queryFailed |-> TRUE])
  /\ signatures' = <<>>
  /\ recentSignatures' = <<>>
  /\ sigPos' = 0
  /\ lastTx' = NoTx
  /\ lastOutcome' = "none"
  /\ lookups' = <<>>
  /\ reported' = reportCheckError(nextRecipient)
  /\ vpc' = "classified"
  /\ UNCHANGED <<configVars, fundVars, recipients>>

\* The start of one iteration of findUnfundedRecipients: the history query
\* answers and the signatures are filtered (lines 26-87).
GetSignatures(sigs) ==
  /\ vpc = "loop"
  /\ checkedCount < Len(recipients)
  /\ checkedCount' = checkedCount + 1
  /\ signatures' = sigs
  /\ recentSignatures' = Filter(sigs, getTimeframeCutoff)
  /\ sigPos' = 0
  /\ lastTx' = NoTx
  /\ lastOutcome' = "none"
  /\ lookups' = <<>>
  /\ reported' = NoReport
  /\ IF Len(recentSignatures') = 0
       THEN Classify(nextRecipient, FALSE)
       ELSE /\ vpc' = "scan"
            /\ UNCHANGED <<unfundedRecipients, classified>>
  /\ UNCHANGED <<configVars, fundVars, recipients>>

\* checkRecipientFunding, lines 90-114: one iteration of the scan, the detail
\* lookup of the next recent signature and what follows until the next lookup
GetTransaction(transaction, lookup) ==
  /\ vpc = "scan"
  /\ sigPos < Len(recentSignatures)
  /\ sigPos' = sigPos + 1
  /\ lastTx' = transaction
  /\ lastOutcome' = lookup
  /\ lookups' = Append(lookups, [signature |-> recentSignatures[sigPos + 1].signature,
                                 outcome |-> lookup])
  /\ reported' = reportLookupError(recipient, lookup)
  /\ IF /\ lookup = "returned"
        /\ analyzeTransactionForFunding(transaction, recipient.address, donorAddresses)
       THEN Classify(recipient, TRUE)
       ELSE IF scanOver(sigPos + 1, recentSignatures, lookup)
         THEN Classify(recipient, FALSE)
         ELSE UNCHANGED <<unfundedRecipients, classified, vpc>>
  /\ UNCHANGED <<configVars, fundVars, recipients, checkedCount, signatures,
                 recentSignatures>>

\* findUnfundedRecipients, lines 50-55: the end of an iteration; the locals
\* of checkRecipientFunding are gone
EndIteration ==
  /\ vpc = "classified"
  /\ vpc' = "loop"
  /\ signatures' = <<>>
  /\ recentSignatures' = <<>>
  /\ sigPos' = 0
  /\ lastTx' = NoTx
  /\ lastOutcome' = "none"
  /\ lookups' = <<>>
  /\ reported' = NoReport
  /\ UNCHANGED <<configVars, unfundedRecipients, fundVars, recipients,
                 checkedCount, classified>>

\* findUnfundedRecipients, lines 57-63: every recipient has been taken
VerifyReturn ==
  /\ vpc = "loop"
  /\ checkedCount = Len(recipients)
  /\ vpc' = "done"
  /\ UNCHANGED <<configVars, unfundedRecipients, fundVars, recipients,
                 checkedCount, signatures, recentSignatures, sigPos, lastTx,
                 lastOutcome, lookups, reported, classified>>

NextVerify ==
  \/ GetSignaturesError
  \/ \E sigs \in SignatureLists : GetSignatures(sigs)
  \/ /\ vpc = "scan"
     /\ \E transaction \in TransactionsOf(recipient.address), lookup \in LookupOutcomes :
          GetTransaction(transaction, lookup)
  \/ GetTransaction(NoTx, "null")
  \/ EndIteration
  \/ VerifyReturn

SpecVerify == InitVerify /\ [][NextVerify]_vars

\* ------------------------------------------------- claims on fundWallets
Zero == [success |-> 0, failed |-> 0, skipped |-> 0]
Done == fpc = "done"
Truncating == Len(unfundedRecipients) > maxFundingOperations

\* The donor of the roster with the given address (addresses are distinct).
RosterDonor(address) == CHOOSE d \in {donors[k] : k \in 1..Len(donors)} : d.address = address

\* C1: the number of disbursement attempts of a run (iterations that reach
\* sendSol or the dry-run branch, success + failed) never exceeds
\* maxFundingOperations.
C1_AttemptsWithinCap ==
  /\ Len(attempts) <= maxFundingOperations
  /\ results.success + results.failed <= maxFundingOperations
  /\ results.success + results.failed = Len(attempts)
  /\ Len(transfers) <= maxFundingOperations
  /\ Done => returned.success + returned.failed <= maxFundingOperations

C1_Witness ==
  /\ Done
  /\ Truncating
  /\ Len(attempts) = maxFundingOperations
  /\ returned.failed > 0

C3_NoSelfTransfer ==
  /\ \A k \in 1..Len(attempts) : attempts[k].donor # attempts[k].recipient
  /\ \A k \in 1..Len(transfers) : transfers[k].from # transfers[k].to

\* C4: a donor is assigned a disbursement only if it has a private key, its
\* balance lookup succeeded and the balance was at least fundingAmountSol plus
\* the fee reserve; a donor without a key, with a failed lookup or with a lower
\* balance is never assigned.
C4_OnlyQualifiedDonors ==
  /\ \A k \in 1..Len(attempts) :
       /\ RosterDonor(attempts[k].donor).privateKey # "none"
       /\ \E c \in 1..Len(balanceCalls) :
            /\ balanceCalls[c].address = attempts[k].donor
            /\ balanceCalls[c].ok
            /\ balanceCalls[c].balance >= FundingAmountLamports + FeeReserveLamports
  /\ \A d \in 1..Len(donors) :
       (\/ donors[d].privateKey = "none"
        \/ \E c \in 1..Len(balanceCalls) :
             /\ balanceCalls[c].address = donors[d].address
             /\ (~balanceCalls[c].ok \/ balanceCalls[c].balance < FundingAmountLamports + FeeReserveLamports))
       => \A k \in 1..Len(attempts) : attempts[k].donor # donors[d].address

C4_Witness ==
  /\ Done
  /\ Len(attempts) > 0
  /\ \E c \in 1..Len(balanceCalls) :
       balanceCalls[c].ok /\ balanceCalls[c].balance < FundingAmountLamports + FeeReserveLamports
  /\ \E k \in 1..Len(attempts) :
       attempts[k].balance >= FundingAmountLamports + FeeReserveLamports

\* C6: in dry-run mode nothing is submitted to the ledger, no attempt fails,
\* and with a donor available every entry of the truncated list is recorded
\* as a success.
C6_DryRunSubmitsNothing ==
  dryRun =>
    /\ transfers = <<>>
    /\ results.failed = 0
    /\ \A k \in 1..Len(attempts) : attempts[k].simulated /\ attempts[k].outcome = "success"
    /\ (Done /\ Len(availableDonors) > 0) =>
         /\ returned.success = Len(recipientsToFund)
         /\ returned.failed = 0
         /\ Len(attempts) = Len(recipientsToFund)
         /\ \A k \in 1..Len(attempts) : attempts[k].recipient = recipientsToFund[k].address

C6_Witness ==
  /\ dryRun
  /\ Done
  /\ returned.success >= 2
  /\ returned.success = Len(recipientsToFund)

\* C7: with an empty unfunded list fundWallets returns all zeros and makes no
\* ledger call: no balance lookup, no transfer, no attempt.
C7_EmptyIsNoOp ==
  Len(unfundedRecipients) = 0 =>
    /\ balanceCalls = <<>>
    /\ transfers = <<>>
    /\ attempts = <<>>
    /\ fpc \in {"start", "done"}
    /\ Done => returned = Zero

C7_Witness ==
  /\ Len(unfundedRecipients) = 0
  /\ Done
  /\ returned = Zero
  /\ \E d \in 1..Len(donors) : donors[d].privateKey # "none"

\* C8: with N >= 1 qualified donors, taken in roster order, the i-th recipient
\* (0-indexed) of the truncated list is assigned qualified donor i mod N,
\* whatever the outcome of the earlier attempts.
C8_RoundRobin ==
  /\ \A a, b \in 1..Len(availableDonors) :
       a < b => availableDonors[a].roster < availableDonors[b].roster
  /\ fpc \in {"loop", "done"} =>
       \A k \in 1..Len(attempts) :
         /\ attempts[k].recipient = recipientsToFund[k].address
         /\ attempts[k].donor =
              availableDonors[((k - 1) % Len(availableDonors)) + 1].address

C8_Witness ==
  /\ Done
  /\ Len(availableDonors) = 2
  /\ Len(attempts) = 3
  /\ attempts[1].outcome = "failed"
  /\ attempts[3].donor = attempts[1].donor
  /\ attempts[2].donor # attempts[1].donor

\* The balance query made for the donor of the given address answered with a
\* balance of at least fundingAmountSol plus the 0.001 SOL reserve.
SufficientBalance(address) ==
  \E c \in 1..Len(balanceCalls) :
    /\ balanceCalls[c].address = address
    /\ balanceCalls[c].ok
    /\ balanceCalls[c].balance >= FundingAmountLamports + FeeReserveLamports

\* No donor of the roster has a key together with a sufficient balance.
NoDonorQualifies ==
  \A d \in 1..Len(donors) :
    donors[d].privateKey = "none" \/ ~SufficientBalance(donors[d].address)

\* C13: when fundWallets has returned on a non-empty list and no donor had a
\* key, a balance lookup that answered and a sufficient balance (or, for any
\* other reason, no donor was available), the value returned is success 0,
\* failed 0, skipped the length of the truncated list, and the loop was never
\* entered: no attempt, simulated or real, and no transfer.
C13_NoDonorSkipsAll ==
  (/\ Done
   /\ Len(unfundedRecipients) > 0
   /\ NoDonorQualifies \/ Len(availableDonors) = 0)
  => /\ returned = [success |-> 0, failed |-> 0,
                    skipped |-> Min(Len(unfundedRecipients), maxFundingOperations)]
     /\ i = 0
     /\ attempts = <<>>
     /\ transfers = <<>>

C13_Witness ==
  /\ Done
  /\ Truncating
  /\ NoDonorQualifies
  /\ ~dryRun
  /\ \E c \in 1..Len(balanceCalls) : ~balanceCalls[c].ok
  /\ \E c \in 1..Len(balanceCalls) : balanceCalls[c].ok
  /\ returned.skipped = maxFundingOperations

\* The number of attempts of the log with the given outcome.
CountOutcome(outcome) ==
  Cardinality({k \in 1..Len(attempts) : attempts[k].outcome = outcome})

\* C14: in execute mode, once getAvailableDonors has admitted a donor, the
\* k-th completed iteration made one call of sendSol, for the k-th recipient
\* of the truncated list; an iteration whose call threw is counted failed and
\* the loop goes on: the next iteration is enabled whatever the earlier
\* outcomes, and on return every truncated recipient has had its one attempt.
C14_OneAttemptEachInOrder ==
  (~dryRun /\ fpc \in {"loop", "done"} /\ Len(availableDonors) > 0)
  => /\ Len(attempts) = i
     /\ Len(transfers) = i
     /\ i <= Len(recipientsToFund)
     /\ \A k \in 1..i :
          /\ attempts[k].recipient = recipientsToFund[k].address
          /\ recipientsToFund[k] = unfundedRecipients[k]
          /\ transfers[k].to = attempts[k].recipient
          /\ transfers[k].from = attempts[k].donor
          /\ ~attempts[k].simulated
     /\ results.failed = CountOutcome("failed")
     /\ results.success = CountOutcome("success")
     /\ (fpc = "loop" /\ i < Len(recipientsToFund)) =>
          ENABLED FundOne("ok") /\ ENABLED FundOne("error")
     /\ Done => i = Min(Len(unfundedRecipients), maxFundingOperations)

C14_Witness ==
  /\ Done
  /\ ~dryRun
  /\ Len(attempts) = 3
  /\ attempts[1].outcome = "failed"
  /\ attempts[2].outcome = "success"
  /\ attempts[3].outcome = "failed"
  /\ returned = [success |-> 1, failed |-> 2, skipped |-> 0]

\* The donors of the first n roster positions that have a private key.
KeyedDonors(n) == {d \in 1..n : donors[d].privateKey # "none"}

\* The balance query made for the donor at roster position d.
CallOf(d) ==
  CHOOSE c \in 1..Len(balanceCalls) : balanceCalls[c].address = donors[d].address

\* C15: getAvailableDonors makes one balance query for every donor with a key,
\* in roster order, whatever happened to the donors before it; a donor whose
\* query threw or whose key did not parse is left out, every donor whose
\* query and key parse went through is kept, and fundWallets goes on to the
\* loop with the donors kept.
C15_DonorErrorExcludesOnlyThatDonor ==
  /\ fpc \in {"donors", "loop", "done"} =>
       /\ Len(balanceCalls) = Cardinality(KeyedDonors(donorPos))
       /\ \A d \in KeyedDonors(donorPos) :
            /\ \E c \in 1..Len(balanceCalls) : balanceCalls[c].address = donors[d].address
            /\ CallOf(d) = Cardinality(KeyedDonors(d))
            /\ (~balanceCalls[CallOf(d)].ok \/ balanceCalls[CallOf(d)].parse = "threw")
                 => \A a \in 1..Len(availableDonors) : availableDonors[a].roster # d
            /\ (balanceCalls[CallOf(d)].ok /\ balanceCalls[CallOf(d)].parse = "ok")
                 => \E a \in 1..Len(availableDonors) : availableDonors[a].roster = d
  /\ (fpc = "donors" /\ donorPos < Len(donors)) =>
       ENABLED DonorNoKey \/ ENABLED DonorBalanceError
  /\ (fpc = "donors" /\ donorPos = Len(donors)) => ENABLED DonorsChecked
  /\ fpc \in {"loop", "done"} /\ Len(unfundedRecipients) > 0 => donorPos = Len(donors)
  /\ (Done /\ Len(availableDonors) > 0) =>
       /\ Len(attempts) = Len(recipientsToFund)
       /\ returned.success + returned.failed = Len(recipientsToFund)

C15_Witness ==
  /\ Done
  /\ Len(donors) = 2
  /\ Len(balanceCalls) = 2
  /\ ~balanceCalls[1].ok
  /\ balanceCalls[2].parse = "ok"
  /\ Len(availableDonors) = 1
  /\ Len(attempts) > 0
  /\ \A k \in 1..Len(attempts) : attempts[k].donor = donors[2].address

\* C18: no donor's balance is asked for twice; while balances are being
\* asked for no transfer has been attempted, and once the loop has begun the
\* balance queries are those getAvailableDonors made, one per donor with a
\* key: each attempt goes out on the balance that one query returned.
C18_BalanceQueriedOnceBeforeTransfers ==
  /\ \A b, c \in 1..Len(balanceCalls) :
       balanceCalls[b].address = balanceCalls[c].address => b = c
  /\ fpc \in {"start", "donors"} => attempts = <<>> /\ transfers = <<>>
  /\ (attempts # <<>> \/ transfers # <<>>) =>
       /\ donorPos = Len(donors)
       /\ Len(balanceCalls) = Cardinality(KeyedDonors(Len(donors)))
  /\ \A k \in 1..Len(attempts) :
       \E c \in 1..Len(balanceCalls) :
         /\ balanceCalls[c].address = attempts[k].donor
         /\ balanceCalls[c].ok
         /\ balanceCalls[c].balance = attempts[k].balance

C18_Witness ==
  /\ Done
  /\ ~dryRun
  /\ Len(transfers) = 3
  /\ Len(balanceCalls) = 1
  /\ \A k \in 1..3 : transfers[k].from = balanceCalls[1].address
  /\ balanceCalls[1].balance < 2 * FundingAmountLamports

\* C19: in the loop the tally's success and failed add up to the iterations
\* completed, every iteration having raised exactly one of the two by one, and
\* whatever the input and the outcomes of the transfers the three counters of
\* the value returned add up to the length of the truncated list,
\* min(unfundedRecipients.length, maxFundingOperations).
C19_TallyAccountsForTruncatedList ==
  /\ fpc = "loop" =>
       /\ results.success + results.failed = i
       /\ results.skipped = 0
       /\ i = Len(attempts)
       /\ results.success = CountOutcome("success")
       /\ results.failed = CountOutcome("failed")
       /\ \A k \in 1..Len(attempts) : attempts[k].outcome \in {"success", "failed"}
  /\ Done =>
       /\ returned.success >= 0 /\ returned.failed >= 0 /\ returned.skipped >= 0
       /\ returned.success + returned.failed + returned.skipped
            = Min(Len(unfundedRecipients), maxFundingOperations)
       /\ returned.success + returned.failed = Len(attempts)

C19_Witness ==
  /\ Done
  /\ Truncating
  /\ returned.success = 1
  /\ returned.failed = 1
  /\ returned.skipped = 0
  /\ maxFundingOperations = 2

\* ---------------------------------------- claims on findUnfundedRecipients
\* The entries of the classification log that are unfunded, in order.
RECURSIVE UnfundedOf(_)
UnfundedOf(log) ==
  IF Len(log) = 0 THEN <<>>
  ELSE IF Head(log).funded
    THEN UnfundedOf(Tail(log))
    ELSE <<[address |-> Head(log).address]>> \o UnfundedOf(Tail(log))

\* The signature of the last detail lookup.
lastSig == recentSignatures[sigPos]

\* The cutoff of the lookback window, in milliseconds.
Cutoff == NowMs - (HoursLookback * 3600000)

\* A successful transaction in which the account of the given address gains at
\* least minSolAmount and an account of the donor set loses balance.
Qualifying(tx, address) ==
  /\ ~tx.meta.err
  /\ \E p \in 1..Len(tx.accountKeys) :
       /\ tx.accountKeys[p] = address
       /\ tx.meta.postBalances[p] - tx.meta.preBalances[p] >= MinLamports
  /\ \E q \in 1..Len(tx.accountKeys) :
       /\ \E d \in 1..Len(donors) : donors[d].address = tx.accountKeys[q]
       /\ tx.meta.postBalances[q] < tx.meta.preBalances[q]

\* C5: a recipient whose history query fails is placed in the unfunded result,
\* the batch goes on, and every recipient of the roster, the later ones
\* included, is checked and classified.
C5_QueryFailureIsUnfunded ==
  /\ \A k \in 1..Len(classified) : classified[k].queryFailed => ~classified[k].funded
  /\ unfundedRecipients = UnfundedOf(classified)
  /\ \A k \in 1..Len(classified) : classified[k].address = recipients[k].address
  /\ vpc \in {"loop", "classified"} => Len(classified) = checkedCount
  /\ vpc = "done" => Len(classified) = Len(recipients)
  /\ (vpc = "classified" /\ classified[checkedCount].queryFailed) => ENABLED EndIteration
  /\ (vpc = "loop" /\ checkedCount < Len(recipients)) => ENABLED GetSignaturesError
  /\ (vpc = "loop" /\ checkedCount = Len(recipients)) => ENABLED VerifyReturn

C5_Witness ==
  /\ vpc = "done"
  /\ Len(classified) >= 2
  /\ classified[1].queryFailed
  /\ unfundedRecipients[1] = recipients[1]
  /\ classified[2].funded

\* C9 as stated: a recipient with a successful transaction within the lookback
\* window in which a donor's balance decreases and the recipient's balance
\* increases by at least minSolAmount is classified funded.
C9_QualifyingMeansFunded ==
  (/\ vpc = "classified"
   /\ lastOutcome \in {"returned", "threw"}
   /\ lastSig.blockTime * 1000 >= Cutoff
   /\ Qualifying(lastTx, recipient.address))
  => classified[checkedCount].funded

\* C9, amended: when the detail lookup of a signature within the lookback
\* window returns a successful transaction in which a donor's balance decreases
\* and the recipient's balance increases by at least minSolAmount, the
\* recipient is classified funded at once and is not put in the unfunded list.
C9_ReturnedQualifyingMeansFunded ==
  (/\ lastOutcome = "returned"
   /\ Qualifying(lastTx, recipient.address))
  => /\ vpc = "classified"
     /\ Len(classified) = checkedCount
     /\ classified[checkedCount].funded
     /\ unfundedRecipients = UnfundedOf(classified)

C9_Witness ==
  /\ vpc = "classified"
  /\ lastOutcome = "returned"
  /\ Qualifying(lastTx, recipient.address)
  /\ sigPos = 2
  /\ lastTx.meta.postBalances[2] - lastTx.meta.preBalances[2] = MinLamports
  /\ classified[checkedCount].funded

\* C10: a recipient is classified funded only on a transaction of its fetched
\* history that the lookup returned, that is successful, is dated at or after
\* the cutoff, raises the recipient's balance by at least minSolAmount and
\* holds a donor-set account whose balance decreased.
C10_FundedOnlyOnEvidence ==
  /\ \A k \in 1..Len(classified) : classified[k].funded => ~classified[k].queryFailed
  /\ (vpc = "classified" /\ classified[checkedCount].funded) =>
       /\ lastOutcome = "returned"
       /\ \E k \in 1..Len(signatures) : signatures[k] = lastSig
       /\ lastSig.blockTime * 1000 >= Cutoff
       /\ Qualifying(lastTx, recipient.address)

C10_Witness ==
  /\ vpc = "classified"
  /\ classified[checkedCount].funded
  /\ Len(signatures) > Len(recentSignatures)
  /\ Qualifying(lastTx, recipient.address)

\* The positions of the roster whose recipient was classified unfunded, and
\* the j-th of them.
UnfundedPositions == {k \in 1..Len(classified) : ~classified[k].funded}
NthUnfunded(j) ==
  CHOOSE k \in UnfundedPositions :
    Cardinality({m \in UnfundedPositions : m <= k}) = j

\* C11: the list findUnfundedRecipients builds is the subsequence of the
\* roster made of the recipients classified unfunded, in the roster's order,
\* and the k-th classification is that of the k-th recipient of the roster, so
\* that on return every recipient has been classified exactly once.
C11_UnfundedIsOrderedSubsequence ==
  /\ Len(classified) <= Len(recipients)
  /\ \A k \in 1..Len(classified) : classified[k].address = recipients[k].address
  /\ Len(unfundedRecipients) = Cardinality(UnfundedPositions)
  /\ \A j \in 1..Len(unfundedRecipients) :
       unfundedRecipients[j] = recipients[NthUnfunded(j)]
  /\ vpc = "done" => Len(classified) = Len(recipients)

C11_Witness ==
  /\ vpc = "done"
  /\ Len(recipients) = 2
  /\ recipients[1].address # recipients[2].address
  /\ ~classified[1].funded /\ ~classified[1].queryFailed
  /\ classified[2].queryFailed
  /\ unfundedRecipients = recipients

\* C12: no address occurs twice in the list findUnfundedRecipients builds,
\* whatever the roster, one that repeats an address included.
C12_UnfundedAddressesDistinct ==
  \A j, k \in 1..Len(unfundedRecipients) :
    unfundedRecipients[j].address = unfundedRecipients[k].address => j = k

\* C16: an error caught within an iteration is written to the console, with
\* the address and the message, by the step that catches it: the failed
\* history query of a recipient and the detail lookup that threw.
C16_ContainedErrorsReported ==
  /\ (vpc = "classified" /\ classified[checkedCount].queryFailed) =>
       /\ reported # NoReport
       /\ reported.address = recipient.address
  /\ (vpc \in {"scan", "classified"} /\ lastOutcome = "threw") =>
       /\ reported # NoReport
       /\ reported.address = recipient.address

\* The position of a signature in the answer of the history query.
PositionOf(signature) ==
  CHOOSE k \in 1..Len(signatures) : signatures[k].signature = signature

\* C17: the detail lookups of a recipient follow the order of the history
\* query's answer, one per signature within the timeframe and none skipped
\* or repeated; once a lookup has returned a qualifying transaction the
\* recipient is classified funded on the spot and no lookup can follow for
\* it, whatever signatures remain.
C17_InOrderUntilFirstQualifying ==
  /\ vpc \in {"scan", "classified"} =>
       /\ Len(lookups) = sigPos
       /\ sigPos <= Len(recentSignatures)
       /\ \A k \in 1..Len(lookups) :
            /\ lookups[k].signature = recentSignatures[k].signature
            /\ \E p \in 1..Len(signatures) : signatures[p].signature = lookups[k].signature
       /\ \A j, k \in 1..Len(lookups) :
            j < k => PositionOf(lookups[j].signature) < PositionOf(lookups[k].signature)
       /\ \A p \in 1..Len(signatures) :
            (Len(lookups) > 0 /\ p < PositionOf(lookups[Len(lookups)].signature)
               /\ signatures[p].blockTime * 1000 >= Cutoff)
            => \E k \in 1..Len(lookups) : lookups[k].signature = signatures[p].signature
  /\ (lastOutcome = "returned" /\ Qualifying(lastTx, recipient.address)) =>
       /\ vpc = "classified"
       /\ classified[checkedCount].funded
  /\ vpc = "classified" =>
       /\ ~ENABLED GetTransaction(NoTx, "null")
       /\ ENABLED EndIteration
  /\ vpc \in {"loop", "done"} => lookups = <<>>

C17_Witness ==
  /\ vpc = "classified"
  /\ classified[checkedCount].funded
  /\ Len(recentSignatures) = 2
  /\ lookups = <<[signature |-> recentSignatures[1].signature, outcome |-> "returned"]>>

\* C20: a detail lookup that throws or returns nothing is passed over: with
\* signatures left the scan is still on and the next lookup can be made, and
\* without any left the recipient is plainly unfunded; a qualifying transaction
\* returned after such lookups still makes the recipient funded; a recipient
\* is recorded with a failed query only when the history query itself threw,
\* before any detail lookup.
C20_FailedLookupOnlySkipsTransaction ==
  /\ (vpc \in {"scan", "classified"} /\ lastOutcome \in {"threw", "null"}) =>
       IF sigPos < Len(recentSignatures)
         THEN /\ vpc = "scan"
              /\ Len(classified) = checkedCount - 1
              /\ ENABLED GetTransaction(NoTx, "null")
         ELSE /\ vpc = "classified"
              /\ ~classified[checkedCount].funded
              /\ ~classified[checkedCount].queryFailed
  /\ (/\ vpc \in {"scan", "classified"}
      /\ \E k \in 1..(Len(lookups) - 1) : lookups[k].outcome \in {"threw", "null"}
      /\ lastOutcome = "returned"
      /\ Qualifying(lastTx, recipient.address)) =>
       /\ vpc = "classified"
       /\ classified[checkedCount].funded
  /\ (vpc = "classified" /\ classified[checkedCount].queryFailed) =>
       /\ lookups = <<>>
       /\ signatures = <<>>
       /\ lastOutcome = "none"

C20_Witness ==
  /\ vpc = "classified"
  /\ Len(lookups) = 2
  /\ lookups[1].outcome = "threw"
  /\ lookups[2].outcome = "returned"
  /\ Qualifying(lastTx, recipient.address)
  /\ classified[checkedCount].funded
  /\ Len(unfundedRecipients) = Len(classified) - 1

====
